---- MODULE Spec2Model ----
(***************************************************************************)
(* Model of the bundle ingestion and index aggregation pipeline of        *)
(* src/generator/main.py (class extractData).                              *)
(*                                                                         *)
(* Strings are sequences of tokens: a token is one character, or one of   *)
(* the fixed multi-character pieces "activity", "activity.info", ".svg",  *)
(* "icons/", "bundles/", "app/", ".xo", ".html".  Python dicts are        *)
(* sequences of <<key, value>> pairs with distinct keys, in insertion     *)
(* order.  A bundle path is the position of the path in the glob result.  *)
(***************************************************************************)
EXTENDS Integers, Sequences, FiniteSets, TLC

\* ------------------------------------------------------------------ bounds
MaxBundles == 2

\* ------------------------------------------------------- sequence helpers
Range(s) == {s[k] : k \in 1..Len(s)}

RECURSIVE Flatten(_)
Flatten(ss) == IF ss = <<>> THEN <<>> ELSE Head(ss) \o Flatten(Tail(ss))

RECURSIVE Join(_, _)
Join(ss, sep) ==
    IF ss = <<>> THEN <<>>
    ELSE IF Len(ss) = 1 THEN Head(ss)
    ELSE Head(ss) \o <<sep>> \o Join(Tail(ss), sep)

\* ------------------------------------------------------------ str methods
\* str.endswith
EndsWith(s, suf) ==
    /\ Len(s) >= Len(suf)
    /\ SubSeq(s, Len(s) - Len(suf) + 1, Len(s)) = suf

\* str.rfind("/") + 1 : the length of the prefix that ends at the last "/"
\* (0 when there is none, since rfind then gives -1)
RFindSlashPlus1(s) ==
    LET hits == {k \in 1..Len(s) : s[k] = "/"}
    IN  IF hits = {} THEN 0 ELSE CHOOSE k \in hits : \A m \in hits : m <= k

\* str.find(';') >= 0
HasSemicolon(v) == \E k \in 1..Len(v) : v[k] = ";"

\* the characters str.split() with no argument treats as separators
IsSpace(c) == c \in {" ", "\t"}

\* str.split(';')
RECURSIVE SplitSemicolon(_)
SplitSemicolon(v) ==
    IF ~HasSemicolon(v) THEN <<v>>
    ELSE LET k == CHOOSE m \in 1..Len(v) :
                     v[m] = ";" /\ \A n \in 1..(m - 1) : v[n] # ";"
         IN  <<SubSeq(v, 1, k - 1)>> \o SplitSemicolon(SubSeq(v, k + 1, Len(v)))

\* str.split() : runs of whitespace separate, empty strings are dropped
RECURSIVE SplitWhitespace(_)
SplitWhitespace(v) ==
    IF v = <<>> THEN <<>>
    ELSE IF IsSpace(Head(v)) THEN SplitWhitespace(Tail(v))
    ELSE LET stops == {m \in 1..Len(v) : IsSpace(v[m])}
             k == IF stops = {} THEN Len(v) + 1
                  ELSE CHOOSE m \in stops : \A n \in stops : m <= n
         IN  <<SubSeq(v, 1, k - 1)>> \o SplitWhitespace(SubSeq(v, k, Len(v)))

\* str.strip(' ')
RECURSIVE StripSpace(_)
StripSpace(v) ==
    IF v = <<>> THEN <<>>
    ELSE IF Head(v) = " " THEN StripSpace(Tail(v))
    ELSE IF v[Len(v)] = " " THEN StripSpace(SubSeq(v, 1, Len(v) - 1))
    ELSE v

\* ----------------------------------------------------------- dict methods
DictHas(d, k) == \E n \in 1..Len(d) : d[n][1] = k
DictValue(d, k) == d[CHOOSE n \in 1..Len(d) : d[n][1] = k][2]

\* dict.get(k) : the value, or None
DictGet(d, k) ==
    IF DictHas(d, k) THEN [isStr |-> TRUE, val |-> DictValue(d, k)]
    ELSE [isStr |-> FALSE, val |-> <<>>]

\* ------------------------------------------------------------ json module
\* json.dumps of a list of str -> str dicts: the text as a token sequence
JsonTok(t) == [t |-> t]
JsonStr(x) == [t |-> "str", s |-> x]

JsonObject(obj) ==
    <<JsonTok("{")>>
    \o Flatten([m \in 1..Len(obj) |-> <<JsonStr(obj[m][1]), JsonStr(obj[m][2])>>])
    \o <<JsonTok("}")>>

\* faulty variant: the last record is left out of the text
jsonDumpsDropLast(list) ==
    <<JsonTok("[")>>
    \o Flatten([n \in 1..(Len(list) - 1) |-> JsonObject(list[n])])
    \o <<JsonTok("]")>>

jsonDumps(list) ==
    <<JsonTok("[")>>
    \o Flatten([n \in 1..Len(list) |-> JsonObject(list[n])])
    \o <<JsonTok("]")>>

\* json.loads: the members of one object up to its closing brace
RECURSIVE JsonParseMembers(_, _)
JsonParseMembers(toks, acc) ==
    IF Head(toks).t = "}" THEN [obj |-> acc, rest |-> Tail(toks)]
    ELSE JsonParseMembers(Tail(Tail(toks)),
                          Append(acc, <<toks[1].s, toks[2].s>>))

RECURSIVE JsonParseObjects(_)
JsonParseObjects(toks) ==
    IF Head(toks).t = "]" THEN <<>>
    ELSE LET r == JsonParseMembers(Tail(toks), <<>>)
         IN  <<r.obj>> \o JsonParseObjects(r.rest)

jsonLoads(text) == JsonParseObjects(Tail(text))

\* ------------------------------------------------------------ the inputs
DescriptorSuffix == <<"activity", "/", "activity.info">>

\* What zipfile.is_zipfile rejects
NotZip == [zip |-> FALSE, namelist |-> <<>>, info |-> <<>>]

Zip(names, info) == [zip |-> TRUE, namelist |-> names, info |-> info]

\* namelist() of the archives: one descriptor with the icon i.svg beside it,
\* one descriptor with i.svg in another directory, no descriptor, two
\* descriptors (the second in a directory whose name only ends in
\* "activity"), and a descriptor at the top of the archive
NamesOneWithIcon ==
    << <<"D", "/", "activity", "/", "activity.info">>,
       <<"D", "/", "activity", "/", "i", ".svg">> >>
NamesOneNoIcon ==
    << <<"D", "/", "i", ".svg">>,
       <<"D", "/", "activity", "/", "activity.info">> >>
NamesNone ==
    << <<"D", "/", "activity", "/", "i", ".svg">>,
       <<"D", "/", "activity.info">> >>
NamesTwo ==
    << <<"D", "/", "activity", "/", "activity.info">>,
       <<"D", "/", "activity", "/", "i", ".svg">>,
       <<"E", "/", "x", "activity", "/", "activity.info">> >>
NamesTop ==
    << <<"activity", "/", "i", ".svg">>,
       <<"activity", "/", "activity.info">> >>

\* The mappings the descriptor parser yields (keys to trimmed values)
InfoDicts ==
    { << <<"name", <<"A">>>>, <<"icon", <<"i">>>>, <<"summary", <<"s">>>>,
         <<"tag", <<"a", ";", "b", " ", "c">>>> >>,
      << <<"name", <<"B">>>>, <<"icon", <<"j">>>>,
         <<"tag", <<"a", " ", "b", " ", "c">>>> >>,
      << <<"name", <<"A">>>>, <<"tags", <<"b">>>>,
         <<"category", <<" ", "a", "\t", " ", "b", " ">>>>,
         <<"license", <<"g">>>> >>,
      << <<"icon", <<"i">>>>, <<"categories", <<"a", ";", ";", "b">>>>,
         <<"tag", <<";">>>> >>,
      << <<"name", <<>>>>, <<"icon", <<"i">>>> >>,
      << <<"name", <<"B">>>>, <<"icon", <<"i">>>>,
         <<"tag", <<"a", " ", "b">>>>, <<"tags", <<"a", " ", "b">>>>,
         <<"summary", <<" ", "s", " ">>>>, <<"description", <<"d">>>> >>,
      << <<"name", <<"A">>>>, <<"icon", <<"i">>>>,
         <<"categories", <<" ", "\t">>>> >>,
      << <<"name", <<"B">>>>, <<"icon", <<"i">>>>,
         <<"tag", <<"a", ";", " ", "b">>>> >>,
      << >> }

\* The files a discovered .xo path can be
Archives ==
    {NotZip, Zip(NamesNone, <<>>), Zip(NamesTwo, <<>>)}
    \cup {Zip(n, d) : n \in {NamesOneWithIcon, NamesOneNoIcon}, d \in InfoDicts}
    \cup {Zip(NamesTop, d) : d \in {e \in InfoDicts : Len(e) = 4}}

\* ---------------------------------------------------- field-mapping table
MapItem(k, f, kind) == [key |-> k, field |-> f, kind |-> kind]

\* the default argument of generateIndex
DefaultInfoToIndexMap ==
    << MapItem("name", "name", "string"),
       MapItem("summary", "summary", "string"),
       MapItem("description", "description", "string"),
       MapItem("tag", "tags", "array"),
       MapItem("tags", "tags", "array"),
       MapItem("categories", "tags", "array"),
       MapItem("category", "tags", "array") >>

\* Tables a caller can pass: the default, the default with one more array
\* source, and two with a kind that is neither 'string' nor 'array'
MapTables ==
    { DefaultInfoToIndexMap,
      Append(DefaultInfoToIndexMap, MapItem("license", "tags", "array")),
      Append(DefaultInfoToIndexMap, MapItem("license", "license", "tuple")),
      <<MapItem("name", "name", "string"), MapItem("tag", "tags", "list")>>
        \o SubSeq(DefaultInfoToIndexMap, 2, 3) }

MapHas(map, k) == \E n \in 1..Len(map) : map[n].key = k
MapEntry(map, k) == map[CHOOSE n \in 1..Len(map) : map[n].key = k]

\* ------------------------------------------------------------ findInfoFiles
findInfoFiles(namelist) ==
    SelectSeq(namelist, LAMBDA File : EndsWith(File, DescriptorSuffix))

\* faulty variant: only an archive without descriptor is turned away
NoInfoFile(infoFiles) == Len(infoFiles) = 0

\* the test of line 80
NotExactlyOneInfoFile(infoFiles) == Len(infoFiles) # 1

\* extractActivityInfo: the parsed mapping of the descriptor entry
extractActivityInfo(infoFilePath, zipFile) == zipFile.info

\* lines 93-95
iconAbsolutePath(infoFile, iconRelativePath) ==
    SubSeq(infoFile, 1, RFindSlashPlus1(infoFile)) \o iconRelativePath \o <<".svg">>

\* ------------------------------------------------- purgeBundlesNotZipFile
ValidBundles(paths, files) == SelectSeq(paths, LAMBDA b : files[b].zip)
\* faulty variant: every path is reported, not only the rejected ones
NotZipBundlesEveryPath(paths, files) == paths
NotZipBundles(paths, files) == SelectSeq(paths, LAMBDA b : ~files[b].zip)

\* ------------------------------------------------------------ generateIndex
DictPut(d, k, v) == [x \in (DOMAIN d) \cup {k} |-> IF x = k THEN v ELSE d[x]]

\* lines 178-185: every target field gets the zero value of its kind
RECURSIVE InitIndexDict(_, _, _)
InitIndexDict(map, n, d) ==
    IF n > Len(map) THEN [fatal |-> FALSE, dict |-> d]
    ELSE IF map[n].kind = "string"
         THEN InitIndexDict(map, n + 1, DictPut(d, map[n].field, <<>>))
    ELSE IF map[n].kind = "array"
         THEN InitIndexDict(map, n + 1, DictPut(d, map[n].field, <<>>))
    ELSE [fatal |-> TRUE, dict |-> d]

\* lines 191-192
CombineString(existing, v) == StripSpace(existing \o <<" ">> \o v)

\* faulty variant: the semicolon is not looked for
SplitValueWhitespaceOnly(v) == SplitWhitespace(v)

\* lines 194-197
SplitValue(v) ==
    IF HasSemicolon(v) THEN SplitSemicolon(v) ELSE SplitWhitespace(v)

\* faulty variant: elements the field already has are not added again
CombineArrayNoDuplicates(existing, v) ==
    existing \o SelectSeq(SplitValue(v), LAMBDA e : e \notin Range(existing))

CombineArray(existing, v) == existing \o SplitValue(v)

\* lines 187-200: the items of the record, in the record's order
RECURSIVE MergeItems(_, _, _, _)
MergeItems(map, obj, n, d) ==
    IF n > Len(obj) THEN [fatal |-> FALSE, dict |-> d]
    ELSE LET k == obj[n][1]
             v == obj[n][2]
         IN  IF ~MapHas(map, k) THEN MergeItems(map, obj, n + 1, d)
             ELSE LET e == MapEntry(map, k)
                  IN  IF e.kind = "string"
                      THEN MergeItems(map, obj, n + 1,
                               DictPut(d, e.field, CombineString(d[e.field], v)))
                      ELSE IF e.kind = "array"
                      THEN MergeItems(map, obj, n + 1,
                               DictPut(d, e.field, CombineArray(d[e.field], v)))
                      ELSE [fatal |-> TRUE, dict |-> d]

\* one pass of the loop of lines 175-202 over one record
IndexOf(map, obj) ==
    LET init == InitIndexDict(map, 1, <<>>)
    IN  IF init.fatal THEN init ELSE MergeItems(map, obj, 1, init.dict)

\* ------------------------------------------------------------- the state
VARIABLES
    files,                         \* the file behind each discovered path
    infoToIndexMap,                \* the argument of generateIndex
    activityBundles,
    bundlesNotZipFiles,
    bundlesNotExactlyOneInfoFile,
    bundlesInfoList,
    infoJson,
    indexDictList,
    indexJs,
    miscErrorBundles,
    iconErrorBundles,
    pc,                            \* the statement __init__ has reached
    pos,                           \* position of bundlePath in activityBundles
    objPos,                        \* position of obj in json.loads(infoJson)
    handles,                       \* the ZipFile objects that are open
    infoFiles,                     \* local of extractInfoAndIconFromBundles
    infoDict,                      \* local of extractInfoAndIconFromBundles
    log,                           \* the statements executed per bundle, in order
    written,                       \* files written by the last two stages
    exitStatus

vars == <<files, infoToIndexMap, activityBundles, bundlesNotZipFiles,
          bundlesNotExactlyOneInfoFile, bundlesInfoList, infoJson,
          indexDictList, indexJs, miscErrorBundles, iconErrorBundles, pc, pos,
          objPos, handles, infoFiles, infoDict, log, written, exitStatus>>

Running == -1

Event(op, b, arg) == [op |-> op, bundle |-> b, arg |-> arg]

\* faulty variant: the archive stays open
CloseHandleLeak(open, b) == open

\* ZipFile.close(): closing a closed archive does nothing
CloseHandle(open, b) == open \ {b}

\* __init__ up to and including findBundles, with the table given
InitWith(tables) ==
    /\ \E n \in 0..MaxBundles :
          /\ files \in [1..n -> Archives]
          /\ activityBundles = [b \in 1..n |-> b]
    /\ infoToIndexMap \in tables
    /\ bundlesNotZipFiles = <<>>
    /\ bundlesNotExactlyOneInfoFile = <<>>
    /\ bundlesInfoList = <<>>
    /\ infoJson = <<>>
    /\ indexDictList = <<>>
    /\ indexJs = <<>>
    /\ miscErrorBundles = <<>>
    /\ iconErrorBundles = <<>>
    /\ pc = "purge"
    /\ pos = 1
    /\ objPos = 1
    /\ handles = {}
    /\ infoFiles = <<>>
    /\ infoDict = <<>>
    /\ log = <<>>
    /\ written = <<>>
    /\ exitStatus = Running

Init == InitWith({DefaultInfoToIndexMap})

InitMap == InitWith(MapTables)

bundlePath == activityBundles[pos]

purgeBundlesNotZipFile ==
    /\ pc = "purge"
    /\ activityBundles' = ValidBundles(activityBundles, files)
    /\ bundlesNotZipFiles' =
           bundlesNotZipFiles \o NotZipBundles(activityBundles, files)
    /\ pos' = 1
    /\ pc' = IF activityBundles' = <<>> THEN "infoJson" ELSE "open"
    /\ UNCHANGED <<files, infoToIndexMap, bundlesNotExactlyOneInfoFile,
                   bundlesInfoList, infoJson, indexDictList, indexJs,
                   miscErrorBundles, iconErrorBundles, objPos, handles,
                   infoFiles, infoDict, log, written, exitStatus>>

\* line 77
OpenBundle ==
    /\ pc = "open"
    /\ handles' = handles \cup {bundlePath}
    /\ log' = Append(log, Event("open", bundlePath, <<>>))
    /\ pc' = "find"
    /\ UNCHANGED <<files, infoToIndexMap, activityBundles, bundlesNotZipFiles,
                   bundlesNotExactlyOneInfoFile, bundlesInfoList, infoJson,
                   indexDictList, indexJs, miscErrorBundles, iconErrorBundles,
                   pos, objPos, infoFiles, infoDict, written, exitStatus>>

\* lines 79-85
FindInfo ==
    /\ pc = "find"
    /\ infoFiles' = findInfoFiles(files[bundlePath].namelist)
    /\ IF NotExactlyOneInfoFile(infoFiles')
       THEN /\ bundlesNotExactlyOneInfoFile' =
                   Append(bundlesNotExactlyOneInfoFile, bundlePath)
            /\ log' = Append(log, Event("notOneInfo", bundlePath, <<>>))
            /\ pc' = "close"
            /\ UNCHANGED <<infoDict, bundlesInfoList>>
       ELSE /\ infoDict' = extractActivityInfo(infoFiles'[1], files[bundlePath])
            /\ bundlesInfoList' = Append(bundlesInfoList, infoDict')
            /\ log' = Append(log, Event("record", bundlePath,
                                        <<Len(bundlesInfoList')>>))
            /\ pc' = "icon"
            /\ UNCHANGED bundlesNotExactlyOneInfoFile
    /\ UNCHANGED <<files, infoToIndexMap, activityBundles, bundlesNotZipFiles,
                   infoJson, indexDictList, indexJs, miscErrorBundles,
                   iconErrorBundles, pos, objPos, handles, written, exitStatus>>

\* lines 89-106
ExtractIcon ==
    /\ pc = "icon"
    /\ LET activityName == DictGet(infoDict, "name")
           iconRelativePath == DictGet(infoDict, "icon")
           iconPath == iconAbsolutePath(infoFiles[1], iconRelativePath.val)
       IN  IF activityName.isStr /\ iconRelativePath.isStr
           THEN /\ IF iconPath \in Range(files[bundlePath].namelist)
                   THEN /\ log' = Append(log, Event("icon", bundlePath,
                                   <<"icons/">> \o activityName.val \o <<".svg">>))
                        /\ UNCHANGED iconErrorBundles
                   ELSE /\ iconErrorBundles' = Append(iconErrorBundles, bundlePath)
                        /\ log' = Append(log, Event("iconError", bundlePath, <<>>))
                /\ pc' = "closeInner"
           ELSE /\ pc' = "close"
                /\ UNCHANGED <<log, iconErrorBundles>>
    /\ UNCHANGED <<files, infoToIndexMap, activityBundles, bundlesNotZipFiles,
                   bundlesNotExactlyOneInfoFile, bundlesInfoList, infoJson,
                   indexDictList, indexJs, miscErrorBundles, pos, objPos,
                   handles, infoFiles, infoDict, written, exitStatus>>

\* line 108
CloseInner ==
    /\ pc = "closeInner"
    /\ handles' = CloseHandle(handles, bundlePath)
    /\ log' = Append(log, Event("close", bundlePath, <<>>))
    /\ pc' = "copy"
    /\ UNCHANGED <<files, infoToIndexMap, activityBundles, bundlesNotZipFiles,
                   bundlesNotExactlyOneInfoFile, bundlesInfoList, infoJson,
                   indexDictList, indexJs, miscErrorBundles, iconErrorBundles,
                   pos, objPos, infoFiles, infoDict, written, exitStatus>>

\* line 111 and lines 59-61
copyBundle ==
    /\ pc = "copy"
    /\ log' = Append(log, Event("copy", bundlePath,
                  <<"bundles/">> \o DictGet(infoDict, "name").val \o <<".xo">>))
    /\ pc' = "close"
    /\ UNCHANGED <<files, infoToIndexMap, activityBundles, bundlesNotZipFiles,
                   bundlesNotExactlyOneInfoFile, bundlesInfoList, infoJson,
                   indexDictList, indexJs, miscErrorBundles, iconErrorBundles,
                   pos, objPos, handles, infoFiles, infoDict, written,
                   exitStatus>>

\* line 112, and the step of the for loop of line 76
CloseBundle ==
    /\ pc = "close"
    /\ handles' = CloseHandle(handles, bundlePath)
    /\ log' = Append(log, Event("close", bundlePath, <<>>))
    /\ pos' = pos + 1
    /\ pc' = IF pos' > Len(activityBundles) THEN "infoJson" ELSE "open"
    /\ UNCHANGED <<files, infoToIndexMap, activityBundles, bundlesNotZipFiles,
                   bundlesNotExactlyOneInfoFile, bundlesInfoList, infoJson,
                   indexDictList, indexJs, miscErrorBundles, iconErrorBundles,
                   objPos, infoFiles, infoDict, written, exitStatus>>

generateInfoJson ==
    /\ pc = "infoJson"
    /\ infoJson' = jsonDumps(bundlesInfoList)
    /\ objPos' = 1
    /\ pc' = "index"
    /\ UNCHANGED <<files, infoToIndexMap, activityBundles, bundlesNotZipFiles,
                   bundlesNotExactlyOneInfoFile, bundlesInfoList,
                   indexDictList, indexJs, miscErrorBundles, iconErrorBundles,
                   pos, handles, infoFiles, infoDict, log, written, exitStatus>>

\* lines 175-202: one pass of the loop; sys.exit(1) on an unknown kind
generateIndexObj ==
    /\ pc = "index"
    /\ objPos <= Len(jsonLoads(infoJson))
    /\ LET r == IndexOf(infoToIndexMap, jsonLoads(infoJson)[objPos])
       IN  IF r.fatal
           THEN /\ pc' = "exit"
                /\ exitStatus' = 1
                /\ UNCHANGED <<indexDictList, objPos>>
           ELSE /\ indexDictList' = Append(indexDictList, r.dict)
                /\ objPos' = objPos + 1
                /\ UNCHANGED <<pc, exitStatus>>
    /\ UNCHANGED <<files, infoToIndexMap, activityBundles, bundlesNotZipFiles,
                   bundlesNotExactlyOneInfoFile, bundlesInfoList, infoJson,
                   indexJs, miscErrorBundles, iconErrorBundles, pos, handles,
                   infoFiles, infoDict, log, written>>

\* lines 203-207
generateIndexJs ==
    /\ pc = "index"
    /\ objPos > Len(jsonLoads(infoJson))
    /\ indexJs' = <<[call |-> "search.assignIndex", arg |-> indexDictList]>>
    /\ pc' = "html"
    /\ UNCHANGED <<files, infoToIndexMap, activityBundles, bundlesNotZipFiles,
                   bundlesNotExactlyOneInfoFile, bundlesInfoList, infoJson,
                   indexDictList, miscErrorBundles, iconErrorBundles, pos,
                   objPos, handles, infoFiles, infoDict, log, written,
                   exitStatus>>

\* lines 120-148: one page per index entry, named after the entry
generateAppsHtmlPages ==
    /\ pc = "html"
    /\ written' = written \o
           [n \in 1..Len(indexDictList) |->
               <<"app/">> \o indexDictList[n]["name"] \o <<".html">>]
    /\ pc' = "write"
    /\ UNCHANGED <<files, infoToIndexMap, activityBundles, bundlesNotZipFiles,
                   bundlesNotExactlyOneInfoFile, bundlesInfoList, infoJson,
                   indexDictList, indexJs, miscErrorBundles, iconErrorBundles,
                   pos, objPos, handles, infoFiles, infoDict, log, exitStatus>>

\* lines 258-279; the run then ends normally
writeFiles ==
    /\ pc = "write"
    /\ written' = written \o
           << <<"info.json">>, <<"js/index.js">>,
              <<"bundlesNotExactlyOneInfoFile.txt">>,
              <<"bundlesNotZipFiles.txt">>, <<"miscErrorBundles.txt">>,
              <<"iconErrorBundles.txt">> >>
    /\ exitStatus' = 0
    /\ pc' = "done"
    /\ UNCHANGED <<files, infoToIndexMap, activityBundles, bundlesNotZipFiles,
                   bundlesNotExactlyOneInfoFile, bundlesInfoList, infoJson,
                   indexDictList, indexJs, miscErrorBundles, iconErrorBundles,
                   pos, objPos, handles, infoFiles, infoDict, log>>

Next ==
    \/ purgeBundlesNotZipFile
    \/ OpenBundle
    \/ FindInfo
    \/ ExtractIcon
    \/ CloseInner
    \/ copyBundle
    \/ CloseBundle
    \/ generateInfoJson
    \/ generateIndexObj
    \/ generateIndexJs
    \/ generateAppsHtmlPages
    \/ writeFiles

Spec == Init /\ [][Next]_vars

SpecMap == InitMap /\ [][Next]_vars

\* ------------------------------------------------- vocabulary of the claims
Discovered == DOMAIN files

Count(seq, x) == Cardinality({k \in 1..Len(seq) : seq[k] = x})

\* positions of the log where statement op ran for bundle b
Ran(op, b) == {k \in 1..Len(log) : log[k].op = op /\ log[k].bundle = b}

\* number of entries of the archive that end in activity/activity.info
DescriptorCount(b) ==
    Cardinality({k \in 1..Len(files[b].namelist) :
                    EndsWith(files[b].namelist[k], DescriptorSuffix)})

OneDescriptor(b) == files[b].zip /\ DescriptorCount(b) = 1

NamedBundle(b) ==
    /\ OneDescriptor(b)
    /\ DictHas(files[b].info, "name")
    /\ DictValue(files[b].info, "name") # <<>>

Finished == pc = "done"

AfterIndex == pc \in {"html", "write", "done"}

ArrayKeys == {"tag", "tags", "category", "categories"}

IndexFields == {"name", "summary", "description", "tags"}

\* ----------------------------------------------------------------------- C1
InNotZip(b) == Count(bundlesNotZipFiles, b) >= 1
InNotOne(b) == Count(bundlesNotExactlyOneInfoFile, b) >= 1
MadeRecord(b) == Ran("record", b) # {}

OutcomeNotZip(b) ==
    /\ Count(bundlesNotZipFiles, b) = 1
    /\ Count(bundlesNotExactlyOneInfoFile, b) = 0
    /\ Count(iconErrorBundles, b) = 0
    /\ Count(miscErrorBundles, b) = 0
    /\ \A k \in 1..Len(log) : log[k].bundle # b

OutcomeNotOne(b) ==
    /\ Count(bundlesNotExactlyOneInfoFile, b) = 1
    /\ Cardinality(Ran("open", b)) = 1

OutcomeRecord(b) ==
    /\ Cardinality(Ran("record", b)) = 1
    /\ Cardinality(Ran("open", b)) = 1
    /\ Len(indexDictList) = Len(bundlesInfoList)
    /\ \A k \in Ran("record", b) :
          /\ log[k].arg[1] \in 1..Len(bundlesInfoList)
          /\ bundlesInfoList[log[k].arg[1]] = files[b].info
          /\ \A m \in 1..Len(log) :
                (log[m].op = "record" /\ log[m].arg = log[k].arg) => m = k

\* C1: when a run of extractData completes, every discovered path has exactly
\* one of the outcomes: only in bundlesNotZipFiles with no record; in
\* bundlesNotExactlyOneInfoFile; or one record and one index entry at the
\* same position. No path is handled twice, none is dropped.
C1_OneOutcomePerPath ==
    Finished =>
        \A b \in Discovered :
            \/ OutcomeNotZip(b) /\ ~InNotOne(b) /\ ~MadeRecord(b)
            \/ OutcomeNotOne(b) /\ ~InNotZip(b) /\ ~MadeRecord(b)
            \/ OutcomeRecord(b) /\ ~InNotZip(b) /\ ~InNotOne(b)

C1_Witness ==
    /\ Finished
    /\ \E b \in Discovered : OutcomeNotZip(b)
    /\ \E b \in Discovered : OutcomeRecord(b)

\* ----------------------------------------------------------------------- C2
\* C2: every valid archive with a non-empty name in its descriptor is copied
\* to bundles/<name>.xo whatever the icon outcome (extracted, absent from the
\* archive, no icon field), and nothing but the release of the handle follows
\* the copy for that bundle.
C2_CopiedWhateverTheIcon ==
    Finished =>
        \A b \in Discovered :
            NamedBundle(b) =>
                \E k \in Ran("copy", b) :
                    /\ log[k].arg = <<"bundles/">>
                                    \o DictValue(files[b].info, "name")
                                    \o <<".xo">>
                    /\ \A m \in (k + 1)..Len(log) :
                          log[m].bundle = b => log[m].op = "close"

\* ----------------------------------------------------------------------- C3
IconWritten(b) ==
    \E k \in Ran("icon", b) :
        log[k].arg = <<"icons/">> \o DictValue(files[b].info, "name")
                     \o <<".svg">>

\* C3: for every valid archive with one descriptor and a non-empty name,
\* once the run is over exactly one holds: its icon was written under
\* icons/<name>.svg, or its path is in iconErrorBundles; its record is kept.
C3_IconWrittenOrReported ==
    Finished =>
        \A b \in Discovered :
            NamedBundle(b) =>
                /\ IconWritten(b) # (Count(iconErrorBundles, b) >= 1)
                /\ \E k \in Ran("record", b) :
                      bundlesInfoList[log[k].arg[1]] = files[b].info

\* ----------------------------------------------------------------------- C4
NotOneDescriptor(b) == files[b].zip /\ DescriptorCount(b) # 1

\* C4: a valid archive with zero or at least two descriptor entries is put
\* once in bundlesNotExactlyOneInfoFile and abandoned: no record, no icon, no
\* copy, and it is not put in iconErrorBundles.
C4_NotOneDescriptorAbandoned ==
    /\ \A b \in Discovered :
          NotOneDescriptor(b) =>
              /\ Ran("record", b) = {}
              /\ Ran("icon", b) = {}
              /\ Ran("copy", b) = {}
              /\ Count(iconErrorBundles, b) = 0
              /\ Count(bundlesNotZipFiles, b) = 0
              /\ Count(bundlesNotExactlyOneInfoFile, b) <= 1
              /\ (pc \notin {"purge", "open", "find"} \/ Ran("close", b) # {})
                    /\ Ran("open", b) # {}
                 => Count(bundlesNotExactlyOneInfoFile, b) = 1
    /\ Len(bundlesInfoList) <= Cardinality({b \in Discovered : OneDescriptor(b)})
    /\ Finished =>
          \A b \in Discovered :
              NotOneDescriptor(b) => Count(bundlesNotExactlyOneInfoFile, b) = 1

C4_Witness ==
    /\ Finished
    /\ \E b \in Discovered : files[b].zip /\ DescriptorCount(b) = 0
    /\ \E b \in Discovered : files[b].zip /\ DescriptorCount(b) >= 2

\* ----------------------------------------------------------------------- C5
NamelessBundle(b) ==
    /\ OneDescriptor(b)
    /\ \/ ~DictHas(files[b].info, "name")
       \/ DictValue(files[b].info, "name") = <<>>

\* C5: a valid archive with one descriptor whose name is missing or empty
\* yields a record, and an index entry with an empty name, but no icon, no
\* copy, and is put in no error bucket.
C5_NamelessOnlyRecord ==
    Finished =>
        \A b \in Discovered :
            NamelessBundle(b) =>
                /\ \E k \in Ran("record", b) :
                      /\ bundlesInfoList[log[k].arg[1]] = files[b].info
                      /\ indexDictList[log[k].arg[1]]["name"] = <<>>
                /\ Ran("icon", b) = {}
                /\ Ran("copy", b) = {}
                /\ Count(bundlesNotZipFiles, b) = 0
                /\ Count(bundlesNotExactlyOneInfoFile, b) = 0
                /\ Count(iconErrorBundles, b) = 0
                /\ Count(miscErrorBundles, b) = 0

\* ----------------------------------------------------------------------- C6
\* what the default table makes of one record, field by field
ExpectedString(rec, k) ==
    IF DictHas(rec, k) THEN StripSpace(DictValue(rec, k)) ELSE <<>>

ExpectedTags(rec) ==
    Flatten([n \in 1..Len(rec) |->
                IF rec[n][1] \in ArrayKeys THEN SplitValue(rec[n][2]) ELSE <<>>])

DerivedFrom(entry, rec) ==
    /\ DOMAIN entry = IndexFields
    /\ entry["name"] = ExpectedString(rec, "name")
    /\ entry["summary"] = ExpectedString(rec, "summary")
    /\ entry["description"] = ExpectedString(rec, "description")
    /\ entry["tags"] = ExpectedTags(rec)

\* C6 as stated: in every state of a run bundlesInfoList and indexDictList
\* have the same length, and entry i is the one derived from record i.
C6_AlwaysSameLength ==
    /\ Len(indexDictList) = Len(bundlesInfoList)
    /\ \A n \in 1..Len(indexDictList) :
          DerivedFrom(indexDictList[n], bundlesInfoList[n])

\* C6 amended: indexDictList is never longer than bundlesInfoList, entry i is
\* always the one derived from record i, and the two lists have the same
\* length once generateIndex has returned.
C6_SameLengthAfterGenerateIndex ==
    /\ Len(indexDictList) <= Len(bundlesInfoList)
    /\ \A n \in 1..Len(indexDictList) :
          DerivedFrom(indexDictList[n], bundlesInfoList[n])
    /\ AfterIndex => Len(indexDictList) = Len(bundlesInfoList)

C6_Witness ==
    /\ AfterIndex
    /\ Len(indexDictList) = 2
    /\ bundlesInfoList[1] # bundlesInfoList[2]

\* ----------------------------------------------------------------------- C7
InLoopBody == pc \in {"find", "icon", "closeInner", "copy", "close"}

\* C7: at most one archive handle is open at any point; the handle of a
\* bundle is closed before the next path is taken, whichever branch was
\* taken, and none is open once the loop has ended.
C7_HandlesScopedPerBundle ==
    /\ Cardinality(handles) <= 1
    /\ handles \subseteq (IF InLoopBody THEN {bundlePath} ELSE {})
    /\ pc \in {"find", "icon", "closeInner"} => handles = {bundlePath}

C7_Witness ==
    /\ pc = "open"
    /\ pos = 2
    /\ handles = {}
    /\ Ran("open", 1) # {}
    /\ Ran("iconError", 1) # {}

\* ----------------------------------------------------------------------- C8
UnknownKind(map) ==
    \E n \in 1..Len(map) : map[n].kind \notin {"string", "array"}

\* C8: with a table that has an entry whose kind is neither 'string' nor
\* 'array', generateIndex ends the run with exit status 1 and no index,
\* whatever the records are, the empty list included.
C8_UnknownKindAlwaysFatal ==
    UnknownKind(infoToIndexMap) =>
        /\ indexJs = <<>>
        /\ pc \notin {"html", "write", "done"}
        /\ exitStatus \in {Running, 1}

\* ----------------------------------------------------------------------- C9
\* the n-th smallest member of a set of positions
Nth(S, n) == CHOOSE x \in S : Cardinality({y \in S : y <= x}) = n

WordStarts(v) ==
    {k \in 1..Len(v) : ~IsSpace(v[k]) /\ (k = 1 \/ IsSpace(v[k - 1]))}
WordEnds(v) ==
    {k \in 1..Len(v) : ~IsSpace(v[k]) /\ (k = Len(v) \/ IsSpace(v[k + 1]))}

\* elems is what value v contributes
Contribution(v, elems) ==
    IF \E k \in 1..Len(v) : v[k] = ";"
    THEN /\ Len(elems) >= 2
         /\ Join(elems, ";") = v
         /\ \A n \in 1..Len(elems) : \A k \in 1..Len(elems[n]) : elems[n][k] # ";"
    ELSE /\ Len(elems) = Cardinality(WordStarts(v))
         /\ \A n \in 1..Len(elems) :
               elems[n] = SubSeq(v, Nth(WordStarts(v), n), Nth(WordEnds(v), n))

\* tags is the contributions of the values, one after the other
RECURSIVE Contributions(_, _)
Contributions(values, tags) ==
    IF values = <<>> THEN tags = <<>>
    ELSE \E k \in 0..Len(tags) :
            /\ Contribution(Head(values), SubSeq(tags, 1, k))
            /\ Contributions(Tail(values), SubSeq(tags, k + 1, Len(tags)))

ArrayValues(rec) ==
    LET items == SelectSeq(rec, LAMBDA item : item[1] \in ArrayKeys)
    IN  [n \in 1..Len(items) |-> items[n][2]]

\* C9: for an array field each raw value is split on semicolons when it has
\* one and on whitespace otherwise, and the elements are appended in order:
\* "a;b c" gives ["a", "b c"], "a b c" gives ["a", "b", "c"].
C9_ArraySplitting ==
    \A n \in 1..Len(indexDictList) :
        LET values == ArrayValues(bundlesInfoList[n])
            tags == indexDictList[n]["tags"]
        IN  /\ Contributions(values, tags)
            /\ values = << <<"a", ";", "b", " ", "c">> >>
                  => tags = << <<"a">>, <<"b", " ", "c">> >>
            /\ values = << <<"a", " ", "b", " ", "c">> >>
                  => tags = << <<"a">>, <<"b">>, <<"c">> >>

C9_Witness ==
    /\ \E n \in 1..Len(indexDictList) :
          /\ ArrayValues(bundlesInfoList[n]) = << <<"a", ";", "b", " ", "c">> >>
          /\ indexDictList[n]["tags"] = << <<"a">>, <<"b", " ", "c">> >>
    /\ \E n \in 1..Len(indexDictList) :
          /\ ArrayValues(bundlesInfoList[n]) = << <<"a", " ", "b", " ", "c">> >>
          /\ indexDictList[n]["tags"] = << <<"a">>, <<"b">>, <<"c">> >>

\* ---------------------------------------------------------------------- C10
\* C10: the tags of an entry are the contributions of the record's tag, tags,
\* category and categories keys, concatenated in the order the keys occur in
\* the record, nothing dropped and nothing deduplicated: tag and tags with
\* the same content give that content twice.
C10_MergedInRecordOrder ==
    \A n \in 1..Len(indexDictList) :
        LET rec == bundlesInfoList[n]
            tags == indexDictList[n]["tags"]
        IN  /\ tags = ExpectedTags(rec)
            /\ Len(tags) = Len(Flatten([m \in 1..Len(ArrayValues(rec)) |->
                                           SplitValue(ArrayValues(rec)[m])]))
            /\ (/\ DictHas(rec, "tag")
                /\ DictHas(rec, "tags")
                /\ DictValue(rec, "tag") = DictValue(rec, "tags")
                /\ Len(ArrayValues(rec)) = 2)
               => tags = SplitValue(DictValue(rec, "tag"))
                         \o SplitValue(DictValue(rec, "tag"))

C10_Witness ==
    \E n \in 1..Len(indexDictList) :
        /\ DictHas(bundlesInfoList[n], "tag")
        /\ DictHas(bundlesInfoList[n], "tags")
        /\ DictValue(bundlesInfoList[n], "tag") = DictValue(bundlesInfoList[n], "tags")
        /\ indexDictList[n]["tags"] = << <<"a">>, <<"b">>, <<"a">>, <<"b">> >>

====
